---- MODULE Spec2Model ----
(***************************************************************************)
(* A model of CRABClient/UserUtilities.py: the user utilities that shell   *)
(* out to curl and dasgoclient, and the muted status query that toggles    *)
(* the process-wide console log level.                                     *)
(*                                                                         *)
(* External collaborators (execute_command, getUserProxy, the status       *)
(* command, LumiList) are the environment: every outcome they can produce  *)
(* is a nondeterministic input of the action that calls them.              *)
(***************************************************************************)
EXTENDS Integers, Sequences, FiniteSets, TLC

\* ------------------------------------------------------------------ bounds
\* Longest list of file records one file query returns.
MaxFiles == 2
\* Longest list of lumi records one lumi query returns.
MaxLumis == 2
\* Longest CRIC answer, in tokens between ':' and ','.
MaxTokens == 3
\* Most handlers attached to the 'CRAB3.all' logger.
MaxHandlers == 2

\* --------------------------------------------------------------- variables
VARIABLES
  \* getLumiListInValidFiles
  lpc,           \* position in the call: start, lumis, construct, returned, raised
  dataset,       \* argument
  dbsurl,        \* argument
  validFiles,    \* names kept by the file loop
  vfIdx,         \* position of "for file in validFiles"
  runLumiPairs,  \* pairs accumulated so far
  queries,       \* every command handed to execute_command, with its result
  lumiList,      \* argument of LumiList(lumis=...) once constructed
  lumiExc        \* the exception that left the call, if any

VARIABLES
  \* curlGetFileFromURL
  cpc,           \* position in the call: start, executed, handled, returned, raised
  filename,      \* argument: the destination path, or None when left out
  curlLogger,    \* whether a logger was passed
  destFile,      \* the file at the path curl was given with -o
  downloaded,    \* what the download command left at that path
  curlStdout,    \* execute_command's stdout: the text of %{http_code}
  curlRc,        \* execute_command's return code
  httpCode,      \* the local httpCode, the value returned
  errorDetails,  \* the local errorDetails
  curlExc,       \* the exception that left the call, if any
  curlLog        \* what the call handed to logger.debug

VARIABLES
  \* getUsernameFromCRIC
  upc,           \* position in the call: start, located, queried, returned, raised
  proxyFileName, \* argument, then the located proxy
  userCmds,      \* every command handed to execute_command, with its result
  username,      \* the local username, the value returned
  userExc        \* the exception that left the call, if any

VARIABLES
  \* the console log level and the calls that change it
  consoleLevel,  \* ClientUtilities.CONSOLE_LOGLEVEL
  crabLogger,    \* whether 'CRAB3.all' is in the logging manager's loggerDict
  handlers,      \* the level of each handler of the 'CRAB3.all' logger
  initLevel,     \* the console level before any call
  op,            \* per thread: the call it makes
  tpc,           \* per thread: its position in the call
  lvl,           \* per thread: the argument of the setConsoleLogLevel it is in
  hIdx,          \* per thread: how many handlers that call has set
  loglevel,      \* per thread: getMutedStatusInfo's local loglevel
  statusDict,    \* per thread: getMutedStatusInfo's local statusDict
  retval,        \* per thread: the value returned
  mutedExc,      \* per thread: the exception that left the call, if any
  events         \* per thread: what the call did, in order

lumiVars == <<lpc, dataset, dbsurl, validFiles, vfIdx, runLumiPairs, queries,
              lumiList, lumiExc>>

curlVars == <<cpc, filename, curlLogger, destFile, downloaded, curlStdout, curlRc,
              httpCode, errorDetails, curlExc, curlLog>>

userVars == <<upc, proxyFileName, userCmds, username, userExc>>

logVars == <<consoleLevel, crabLogger, handlers, initLevel, op, tpc, lvl, hIdx,
             loglevel, statusDict, retval, mutedExc, events>>

vars == <<lumiVars, curlVars, userVars, logVars>>

\* ================================================================ helpers
\* All sequences over S of length at most n.
SeqUpTo(S, n) == UNION {[1..k -> S] : k \in 0..n}

\* ================================================= getLumiListInValidFiles
Datasets == {"/A/B/C"}
DbsUrls == {"phys03", "global"}
FileNames == {"f1", "f2"}
RunLumis == {<<1, 10>>, <<1, 11>>}

\* One record of the file query's JSON: record['file'][0] with its name and
\* validity flag, or a record without the expected keys.
FileRecords ==
  [wellFormed : {TRUE}, name : FileNames, valid : BOOLEAN]
    \cup {[wellFormed |-> FALSE, name |-> "", valid |-> FALSE]}

\* One record of a lumi query's JSON: lumiInfo['lumi'][0].
LumiRecords ==
  {[wellFormed |-> TRUE, run |-> p[1], lumi |-> p[2]] : p \in RunLumis}
    \cup {[wellFormed |-> FALSE, run |-> 0, lumi |-> 0]}

\* What execute_command can print: nothing, text that is no JSON, or a JSON
\* list of records.
Stdouts(Records, n) ==
  {[kind |-> "empty", recs |-> <<>>], [kind |-> "notjson", recs |-> <<>>]}
    \cup {[kind |-> "json", recs |-> r] : r \in SeqUpTo(Records, n)}

ReturnCodes == {0, 1}
Stderrs == {"", "dasgoclient: error"}

\* dasCmd % query: the command line, as the pieces it is formatted from.
DasCmd(query, arg, url) ==
  [tool |-> "dasgoclient --query", query |-> query, arg |-> arg,
   instance |-> <<"prod/", url>>, flags |-> "--json"]

NoCmd == [tool |-> "", query |-> "", arg |-> "", instance |-> <<>>, flags |-> ""]
NoException ==
  [type |-> "none", cmd |-> NoCmd, returncode |-> 0,
   stdout |-> [kind |-> "empty", recs |-> <<>>], stderr |-> ""]

\* A complaint that reports the exit code and the output but not the command.
complainNoCmd(cmd, stdout, stderr, returncode) ==
  [type |-> "ClientException", cmd |-> NoCmd, returncode |-> returncode,
   stdout |-> stdout, stderr |-> stderr]

\* complain(): the ClientException and what its message is built from. Stdout
\* and stderr are appended only when non-empty.
complain(cmd, stdout, stderr, returncode) ==
  [type |-> "ClientException", cmd |-> cmd, returncode |-> returncode,
   stdout |-> stdout, stderr |-> stderr]

\* What json.loads or the record indexing raises: its message is the parser's
\* or the missing key's, with nothing of the command in it.
ParseError(type) ==
  [type |-> type, cmd |-> NoCmd, returncode |-> 0,
   stdout |-> [kind |-> "empty", recs |-> <<>>], stderr |-> ""]

\* A check that forgets the empty output.
QueryFailedRcOnly(returncode, stdout) == returncode # 0

\* "if returncode or not stdout"
QueryFailed(returncode, stdout) == returncode # 0 \/ stdout.kind = "empty"

\* A file loop that forgets the validity flag.
RECURSIVE KeepAllFiles(_)
KeepAllFiles(result) ==
  IF result = <<>> THEN <<>>
  ELSE <<Head(result).name>> \o KeepAllFiles(Tail(result))

\* The file loop: append file['name'] for each record whose is_file_valid is
\* true, in order.
RECURSIVE KeepValid(_)
KeepValid(result) ==
  IF result = <<>> THEN <<>>
  ELSE LET file == Head(result)
       IN  (IF file.valid THEN <<file.name>> ELSE <<>>) \o KeepValid(Tail(result))

\* The lumi loop: append (run, lumi) for each record, in order.
RECURSIVE AppendPairs(_, _)
AppendPairs(pairs, result) ==
  IF result = <<>> THEN pairs
  ELSE LET lumiDict == Head(result)
       IN  AppendPairs(Append(pairs, <<lumiDict.run, lumiDict.lumi>>), Tail(result))

AllWellFormed(recs) == \A i \in 1..Len(recs) : recs[i].wellFormed

\* The records a loop handles before the first one that lacks a key.
RECURSIVE WellFormedPrefix(_)
WellFormedPrefix(recs) ==
  IF recs = <<>> \/ ~Head(recs).wellFormed THEN <<>>
  ELSE <<Head(recs)>> \o WellFormedPrefix(Tail(recs))

LumiIdle ==
  /\ lpc = "idle" /\ dataset = "" /\ dbsurl = "" /\ validFiles = <<>>
  /\ vfIdx = 0 /\ runLumiPairs = <<>> /\ queries = <<>> /\ lumiList = <<>>
  /\ lumiExc = NoException

LumiInit ==
  /\ lpc = "start"
  /\ dataset \in Datasets
  /\ dbsurl \in DbsUrls
  /\ validFiles = <<>>
  /\ vfIdx = 0
  /\ runLumiPairs = <<>>
  /\ queries = <<>>
  /\ lumiList = <<>>
  /\ lumiExc = NoException

\* Lines 174-189: the file query and the loop that keeps the valid names.
FileQuery ==
  /\ lpc = "start"
  /\ \E returncode \in ReturnCodes, stdout \in Stdouts(FileRecords, MaxFiles),
        stderr \in Stderrs :
       LET cmd == DasCmd("file dataset=", dataset, dbsurl)
       IN  /\ queries' = Append(queries, [cmd |-> cmd, returncode |-> returncode,
                                          stdout |-> stdout])
           /\ IF QueryFailed(returncode, stdout)
              THEN /\ lumiExc' = complain(cmd, stdout, stderr, returncode)
                   /\ lpc' = "raised"
                   /\ UNCHANGED validFiles
              ELSE IF stdout.kind # "json"
              THEN /\ lumiExc' = ParseError("ValueError")
                   /\ lpc' = "raised"
                   /\ UNCHANGED validFiles
              ELSE IF ~AllWellFormed(stdout.recs)
              THEN /\ lumiExc' = ParseError("KeyError")
                   /\ lpc' = "raised"
                   /\ validFiles' = KeepValid(WellFormedPrefix(stdout.recs))
              ELSE /\ validFiles' = KeepValid(stdout.recs)
                   /\ lpc' = "lumis"
                   /\ UNCHANGED lumiExc
  /\ vfIdx' = 0
  /\ UNCHANGED <<dataset, dbsurl, runLumiPairs, lumiList, curlVars, userVars, logVars>>

\* Lines 193-209: one turn of "for file in validFiles".
LumiQuery ==
  /\ lpc = "lumis"
  /\ vfIdx < Len(validFiles)
  /\ vfIdx' = vfIdx + 1
  /\ \E returncode \in ReturnCodes, stdout \in Stdouts(LumiRecords, MaxLumis),
        stderr \in Stderrs :
       LET file == validFiles[vfIdx + 1]
           cmd == DasCmd("lumi file=", file, dbsurl)
       IN  /\ queries' = Append(queries, [cmd |-> cmd, returncode |-> returncode,
                                          stdout |-> stdout])
           /\ IF QueryFailed(returncode, stdout)
              THEN /\ lumiExc' = complain(cmd, stdout, stderr, returncode)
                   /\ lpc' = "raised"
                   /\ UNCHANGED runLumiPairs
              ELSE IF stdout.kind # "json"
              THEN /\ lumiExc' = ParseError("ValueError")
                   /\ lpc' = "raised"
                   /\ UNCHANGED runLumiPairs
              ELSE IF ~AllWellFormed(stdout.recs)
              THEN /\ lumiExc' = ParseError("KeyError")
                   /\ lpc' = "raised"
                   /\ runLumiPairs' =
                        AppendPairs(runLumiPairs, WellFormedPrefix(stdout.recs))
              ELSE /\ runLumiPairs' = AppendPairs(runLumiPairs, stdout.recs)
                   /\ UNCHANGED <<lpc, lumiExc>>
  /\ UNCHANGED <<dataset, dbsurl, validFiles, lumiList, curlVars, userVars, logVars>>

\* A return that treats "no valid file" as an error.
LumiReturnRaisesOnEmpty ==
  /\ lpc = "lumis"
  /\ vfIdx = Len(validFiles)
  /\ IF validFiles = <<>>
     THEN /\ lumiExc' = complain(NoCmd, [kind |-> "empty", recs |-> <<>>], "", 0)
          /\ lpc' = "raised"
          /\ UNCHANGED lumiList
     ELSE /\ lumiList' = runLumiPairs
          /\ lpc' = "returned"
          /\ UNCHANGED lumiExc
  /\ UNCHANGED <<dataset, dbsurl, validFiles, vfIdx, runLumiPairs, queries,
                 curlVars, userVars, logVars>>

\* Lines 212-214: the loop is exhausted; build the LumiList and return it.
LumiReturn ==
  /\ lpc = "lumis"
  /\ vfIdx = Len(validFiles)
  /\ lumiList' = runLumiPairs
  /\ lpc' = "returned"
  /\ UNCHANGED <<dataset, dbsurl, validFiles, vfIdx, runLumiPairs, queries, lumiExc,
               curlVars, userVars, logVars>>

LumiNext == FileQuery \/ LumiQuery \/ LumiReturn


\* ------------------------------------------------ claims C1-C4 (SpecLumi)
\* The file query is the first command of the log and the lumi queries follow.
FileResponse == queries[1]
ResponseFailed(q) == q.returncode # 0 \/ q.stdout.kind = "empty"
ResponseMalformed(q) ==
  /\ ~ResponseFailed(q)
  /\ \/ q.stdout.kind = "notjson"
     \/ \E i \in 1..Len(q.stdout.recs) : ~q.stdout.recs[i].wellFormed
FlaggedValid(rec) == rec.valid
PairOf(rec) == <<rec.run, rec.lumi>>

\* The pairs of the lumi queries k..Len(qs), one after the other.
RECURSIVE Concatenated(_, _)
Concatenated(qs, k) ==
  IF k > Len(qs) THEN <<>>
  ELSE [i \in 1..Len(qs[k].stdout.recs) |-> PairOf(qs[k].stdout.recs[i])]
         \o Concatenated(qs, k + 1)

\* C1: when the call returns, the pairs handed to LumiList are exactly the
\* lumi records of the files flagged valid, file by file in the order of the
\* file query and record by record in the order of each lumi query, with
\* nothing dropped, added, reordered or deduplicated; one lumi query was
\* issued per valid file and none for an invalid one.
C1_ValidPairsInOrder ==
  lpc = "returned" =>
    LET valid == SelectSeq(FileResponse.stdout.recs, FlaggedValid)
    IN  /\ Len(queries) = 1 + Len(valid)
        /\ \A i \in 1..Len(valid) :
             queries[1 + i].cmd = DasCmd("lumi file=", valid[i].name, dbsurl)
        /\ lumiList = Concatenated(queries, 2)
        /\ lumiExc = NoException

\* A call that returned for a dataset with an invalid file before a valid one,
\* whose valid file reported the same pair twice.
C1_Witness ==
  /\ lpc = "returned"
  /\ Len(FileResponse.stdout.recs) = 2
  /\ ~FileResponse.stdout.recs[1].valid
  /\ FileResponse.stdout.recs[2].valid
  /\ lumiList = <<<<1, 11>>, <<1, 11>>>>

\* C2: a query that exits nonzero or prints nothing is the last command the
\* call runs: the call has ended with a ClientException, nothing was queried
\* after it (so it was not retried either), and no LumiList was built.
C2_FailureIsTerminal ==
  \A i \in 1..Len(queries) :
    ResponseFailed(queries[i]) =>
      /\ i = Len(queries)
      /\ lpc = "raised"
      /\ lumiExc.type = "ClientException"
      /\ lumiList = <<>>
      /\ ~ENABLED FileQuery /\ ~ENABLED LumiQuery /\ ~ENABLED LumiReturn

\* The second lumi query printed nothing after the first had delivered pairs.
C2_Witness ==
  /\ Len(queries) = 3
  /\ queries[3].returncode = 0
  /\ queries[3].stdout.kind = "empty"
  /\ runLumiPairs # <<>>
  /\ lpc = "raised"

\* C3 as stated: every malformed or empty response ends the call with an
\* error whose message embeds the command that produced the response.
C3_Original ==
  \A i \in 1..Len(queries) :
    (ResponseMalformed(queries[i]) \/ queries[i].stdout.kind = "empty") =>
      /\ lpc = "raised"
      /\ lumiExc.cmd = queries[i].cmd

\* C3, amended: a response with a nonzero exit code or empty output ends the
\* call with a ClientException whose message holds the command of that very
\* query, its exit code and its output; a non-empty response with exit code 0
\* that is not the expected JSON ends it with the parser's own error
\* (ValueError, KeyError), which holds nothing of the command.
C3_FailedCommandInMessage ==
  \A i \in 1..Len(queries) :
    /\ ResponseFailed(queries[i]) =>
         /\ lpc = "raised"
         /\ lumiExc.type = "ClientException"
         /\ lumiExc.cmd = queries[i].cmd
         /\ lumiExc.cmd.arg = (IF i = 1 THEN dataset ELSE validFiles[i - 1])
         /\ lumiExc.returncode = queries[i].returncode
         /\ lumiExc.stdout = queries[i].stdout
    /\ ResponseMalformed(queries[i]) =>
         /\ lpc = "raised"
         /\ lumiExc.type \in {"ValueError", "KeyError"}
         /\ lumiExc.cmd = NoCmd

\* A lumi query of the second valid file printed nothing and the call raised.
C3_Witness ==
  /\ lpc = "raised"
  /\ Len(queries) = 3
  /\ queries[3].stdout.kind = "empty"
  /\ lumiExc.cmd = DasCmd("lumi file=", validFiles[2], dbsurl)

\* C4: when the file query succeeds and lists no file, or only files flagged
\* invalid, the call issues no lumi query, raises nothing, can only return,
\* and returns an empty list of pairs.
C4_NoValidFilesEmptyList ==
  ( /\ Len(queries) >= 1
    /\ ~ResponseFailed(FileResponse)
    /\ ~ResponseMalformed(FileResponse)
    /\ \A i \in 1..Len(FileResponse.stdout.recs) : ~FileResponse.stdout.recs[i].valid )
  => /\ Len(queries) = 1
     /\ lumiExc = NoException
     /\ lpc \in {"lumis", "returned"}
     /\ lpc = "lumis" => (ENABLED LumiReturn /\ ~ENABLED LumiQuery)
     /\ lpc = "returned" => lumiList = <<>>

\* The call returned for a dataset of two files, both flagged invalid.
C4_Witness ==
  /\ lpc = "returned"
  /\ Len(FileResponse.stdout.recs) = 2
  /\ \A i \in 1..2 : ~FileResponse.stdout.recs[i].valid
  /\ lumiList = <<>>
  /\ Len(queries) = 1

\* The call returned for a dataset with no file at all.
C4_WitnessZeroFiles ==
  /\ lpc = "returned"
  /\ FileResponse.stdout.kind = "json"
  /\ FileResponse.stdout.recs = <<>>
  /\ lumiList = <<>>

\* ====================================================== curlGetFileFromURL
None == "<None>"
Filenames == {None, "/tmp/dest"}
Absent == [exists |-> FALSE, content |-> ""]
File(content) == [exists |-> TRUE, content |-> content]

\* Exit codes of the download command: 0, and curl's "could not resolve host"
\* and "partial file".
CurlReturnCodes == {0, 6, 18}
\* What -w %{http_code} prints.
HttpCodes == {0, 200, 301, 404, 500}
Bodies == {"", "payload", "error page"}

CurlIdle ==
  /\ cpc = "idle" /\ filename = None /\ curlLogger = FALSE /\ destFile = Absent
  /\ downloaded = Absent /\ curlStdout = 0 /\ curlRc = 0 /\ httpCode = 0
  /\ errorDetails = "" /\ curlExc = "none" /\ curlLog = <<>>

CurlInit ==
  /\ cpc = "start"
  /\ filename \in Filenames
  /\ curlLogger \in BOOLEAN
  /\ destFile \in {Absent, File("stale")}
  /\ downloaded = Absent
  /\ curlStdout = 0
  /\ curlRc = 0
  /\ httpCode = 0
  /\ errorDetails = ""
  /\ curlExc = "none"
  /\ curlLog = <<>>

\* Lines 119-128: format the command, log it, run it. A command that exits
\* with 0 has written the response body to the -o path (curl creates the file
\* even for an empty body); one that fails has either not touched the path or
\* left what it had written so far.
CurlExecute ==
  /\ cpc = "start"
  /\ \E rc \in CurlReturnCodes, code \in HttpCodes, body \in Bodies,
        wrote \in BOOLEAN :
       /\ rc = 0 => wrote
       /\ curlRc' = rc
       /\ curlStdout' = code
       /\ destFile' = IF wrote THEN File(body) ELSE destFile
       /\ downloaded' = IF wrote THEN File(body) ELSE destFile
  /\ curlLog' = IF curlLogger THEN Append(curlLog, "Will execute") ELSE curlLog
  /\ errorDetails' = ""
  /\ cpc' = "executed"
  /\ UNCHANGED <<filename, curlLogger, httpCode, curlExc, lumiVars, userVars, logVars>>

\* os.unlink(filename) and open(filename): TypeError for None, an OSError or
\* IOError when nothing is at the path.
PathError == IF filename = None THEN "TypeError" ELSE "OSError"
PathUsable == filename # None /\ destFile.exists

\* A branch that reads the error page of a non-200 answer but leaves the file.
CurlHandleKeepsFile ==
  /\ cpc = "executed"
  /\ IF curlRc # 0
     THEN IF PathUsable
          THEN /\ destFile' = Absent
               /\ httpCode' = 503
               /\ cpc' = "handled"
               /\ UNCHANGED <<errorDetails, curlExc>>
          ELSE /\ curlExc' = PathError
               /\ cpc' = "raised"
               /\ UNCHANGED <<destFile, httpCode, errorDetails>>
     ELSE /\ httpCode' = curlStdout
          /\ IF curlStdout # 200
             THEN IF PathUsable
                  THEN /\ errorDetails' = destFile.content
                       /\ cpc' = "handled"
                       /\ UNCHANGED <<destFile, curlExc>>
                  ELSE /\ curlExc' = PathError
                       /\ cpc' = "raised"
                       /\ UNCHANGED <<destFile, errorDetails>>
             ELSE /\ cpc' = "handled"
                  /\ UNCHANGED <<destFile, errorDetails, curlExc>>
  /\ UNCHANGED <<filename, curlLogger, downloaded, curlStdout, curlRc, curlLog,
                 lumiVars, userVars, logVars>>

\* Lines 130-138: the branch on the exit code and on the HTTP status.
CurlHandle ==
  /\ cpc = "executed"
  /\ IF curlRc # 0
     THEN IF PathUsable
          THEN /\ destFile' = Absent
               /\ httpCode' = 503
               /\ cpc' = "handled"
               /\ UNCHANGED <<errorDetails, curlExc>>
          ELSE /\ curlExc' = PathError
               /\ cpc' = "raised"
               /\ UNCHANGED <<destFile, httpCode, errorDetails>>
     ELSE /\ httpCode' = curlStdout
          /\ IF curlStdout # 200
             THEN IF PathUsable
                  THEN /\ errorDetails' = destFile.content
                       /\ destFile' = Absent
                       /\ cpc' = "handled"
                       /\ UNCHANGED curlExc
                  ELSE /\ curlExc' = PathError
                       /\ cpc' = "raised"
                       /\ UNCHANGED <<destFile, errorDetails>>
             ELSE /\ cpc' = "handled"
                  /\ UNCHANGED <<destFile, errorDetails, curlExc>>
  /\ UNCHANGED <<filename, curlLogger, downloaded, curlStdout, curlRc, curlLog,
                 lumiVars, userVars, logVars>>

\* Lines 139-142: log the outcome and return httpCode.
CurlReturn ==
  /\ cpc = "handled"
  /\ curlLog' = IF curlLogger
                THEN Append(curlLog, "exitcode, stdout, stderr, error details")
                ELSE curlLog
  /\ cpc' = "returned"
  /\ UNCHANGED <<filename, curlLogger, destFile, downloaded, curlStdout, curlRc,
                 httpCode, errorDetails, curlExc, lumiVars, userVars, logVars>>

CurlNext == CurlExecute \/ CurlHandle \/ CurlReturn


\* ------------------------------------------------ claims C5-C6 (SpecCurl)
\* C5 as stated: once a call with a destination path whose download command
\* failed has ended, it has returned 503 and nothing is at the destination,
\* whether or not the command had created the file.
C5_FailedCommandReturns503 ==
  (filename # None /\ curlRc # 0 /\ cpc \in {"handled", "returned", "raised"}) =>
    /\ cpc # "raised"
    /\ httpCode = 503
    /\ ~destFile.exists

C6_Witness200 ==
  /\ cpc = "returned"
  /\ filename # None
  /\ curlRc = 0
  /\ httpCode = 200
  /\ destFile = File("payload")

\* ===================================================== getUsernameFromCRIC
ProxyFiles == {"/tmp/x509up_u1000"}

\* The answer of the whoami query as tr ':,' '\n' cuts it: one token per line.
Tokens == {"\"login\"", " \"jdoe\"", " null", " \"\"", "\"name\""}

\* grep login: the lines that hold the word.
MatchesLogin(t) == t = "\"login\""

\* tr -d ' \n"'
Strip(t) ==
  CASE t = "\"login\"" -> "login"
    [] t = " \"jdoe\"" -> "jdoe"
    [] t = " null" -> "null"
    [] t = " \"\"" -> ""
    [] t = "\"name\"" -> "name"

\* grep -A1 login | tail -1 | tr -d ' \n"': the last line grep prints is the
\* line after the last match, or that match itself when it is the last line.
ParseLogin(tokens) ==
  LET matches == {i \in 1..Len(tokens) : MatchesLogin(tokens[i])}
  IN  IF matches = {} THEN ""
      ELSE LET m == CHOOSE i \in matches : \A j \in matches : j <= i
           IN  Strip(tokens[IF m < Len(tokens) THEN m + 1 ELSE m])

WhoamiCmd(proxy) == [tool |-> "curl", cert |-> proxy, key |-> proxy, input |-> <<>>]
ParseCmd(stdout) == [tool |-> "echo | tr | grep | tail | tr", cert |-> "", key |-> "",
                     input |-> stdout]

UserIdle ==
  /\ upc = "idle" /\ proxyFileName = "" /\ userCmds = <<>> /\ username = ""
  /\ userExc = "none"

UserInit ==
  /\ upc = "start"
  /\ proxyFileName \in ProxyFiles \cup {""}
  /\ userCmds = <<>>
  /\ username = ""
  /\ userExc = "none"

\* Lines 72-78: fall back on getUserProxy(), give up without a proxy.
UserLocateProxy ==
  /\ upc = "start"
  /\ \E located \in ProxyFiles \cup {""} :
       LET proxy == IF proxyFileName = "" THEN located ELSE proxyFileName
       IN  /\ proxyFileName' = proxy
           /\ IF proxy = ""
              THEN upc' = "raised" /\ userExc' = "UsernameException"
              ELSE upc' = "located" /\ UNCHANGED userExc
  /\ UNCHANGED <<userCmds, username, lumiVars, curlVars, logVars>>

\* Lines 80-89: the whoami query.
UserQuery ==
  /\ upc = "located"
  /\ \E rc \in ReturnCodes, stdout \in SeqUpTo(Tokens, MaxTokens) :
       /\ userCmds' = Append(userCmds, [cmd |-> WhoamiCmd(proxyFileName),
                                        rc |-> rc, stdout |-> stdout])
       /\ IF rc # 0 \/ stdout = <<>>
          THEN upc' = "raised" /\ userExc' = "UsernameException"
          ELSE upc' = "queried" /\ UNCHANGED userExc
  /\ UNCHANGED <<proxyFileName, username, lumiVars, curlVars, logVars>>

\* A check of the parsed value that forgets the literal null.
UsernameMissingNoNull(name) == name = ""

\* "if username == 'null' or not username"
UsernameMissing(name) == name = "null" \/ name = ""

\* Lines 91-105: the parse pipeline, whose exit code is not looked at: when
\* the shell cannot run it, it prints nothing.
UserParse ==
  /\ upc = "queried"
  /\ \E shellRan \in BOOLEAN :
       LET stdout == userCmds[1].stdout
           out == IF shellRan THEN <<ParseLogin(stdout)>> ELSE <<>>
           name == IF out = <<>> THEN "" ELSE out[1]
       IN  /\ userCmds' = Append(userCmds, [cmd |-> ParseCmd(stdout),
                                            rc |-> IF shellRan THEN 0 ELSE 1,
                                            stdout |-> out])
           /\ username' = name
           /\ IF UsernameMissing(name)
              THEN upc' = "raised" /\ userExc' = "UsernameException"
              ELSE upc' = "returned" /\ UNCHANGED userExc
  /\ UNCHANGED <<proxyFileName, lumiVars, curlVars, logVars>>

UserNext == UserLocateProxy \/ UserQuery \/ UserParse

\* ------------------------------------------------------ claim C8 (SpecUser)
WhoamiFailed == userCmds[1].rc # 0 \/ userCmds[1].stdout = <<>>
ParsedValue == IF userCmds[2].stdout = <<>> THEN "" ELSE userCmds[2].stdout[1]

\* (a) no proxy given, none located, no command run.
C8_NoProxy == proxyFileName = "" /\ upc # "start" /\ userCmds = <<>>
\* (b) the query failed or printed nothing, and the parse command was not run.
C8_QueryFailed == Len(userCmds) = 1 /\ WhoamiFailed
\* (c) the parse command printed nothing or the literal null.
C8_NoLogin ==
  Len(userCmds) = 2 /\ ~WhoamiFailed /\ ParsedValue \in {"", "null"}

\* C8: the call raises UsernameException exactly in the cases (a), (b) and
\* (c), each of which ends it at once, and otherwise returns what the parse
\* command printed: for an answer whose last login key is followed by a
\* value, that value without quotes and blanks.
C8_UsernameExceptionCases ==
  /\ upc = "raised" <=> (C8_NoProxy \/ C8_QueryFailed \/ C8_NoLogin)
  /\ upc = "raised" => userExc = "UsernameException"
  /\ upc # "raised" => userExc = "none"
  /\ Len(userCmds) >= 1 =>
       /\ userCmds[1].cmd = WhoamiCmd(proxyFileName)
       /\ proxyFileName # ""
  /\ (Len(userCmds) >= 1 /\ WhoamiFailed) => Len(userCmds) = 1
  /\ Len(userCmds) = 2 <=>
       (upc \in {"returned", "raised"} /\ ~C8_QueryFailed /\ ~C8_NoProxy)
  /\ upc = "returned" =>
       /\ Len(userCmds) = 2
       /\ username = ParsedValue
       /\ username \notin {"", "null"}
       /\ userCmds[2].rc = 0 =>
            \E i \in 1..Len(userCmds[1].stdout) :
              /\ MatchesLogin(userCmds[1].stdout[i])
              /\ \A j \in (i + 1)..Len(userCmds[1].stdout) :
                   ~MatchesLogin(userCmds[1].stdout[j])
              /\ username = Strip(userCmds[1].stdout[IF i < Len(userCmds[1].stdout)
                                                     THEN i + 1 ELSE i])

\* A call returned the login that follows the login key.
C8_Witness ==
  /\ upc = "returned"
  /\ userCmds[1].stdout = <<"\"name\"", "\"login\"", " \"jdoe\"">>
  /\ username = "jdoe"

\* A call raised because the login was the literal null.
C8_WitnessNull ==
  /\ upc = "raised"
  /\ Len(userCmds) = 2
  /\ username = "null"

\* ======================================= console log level, muted status
Threads == {1, 2}
LOGLEVEL_MUTE == "MUTE"
Levels == {"DEBUG", "INFO", LOGLEVEL_MUTE}

\* What the status command can hand back: a dictionary with an empty or a
\* non-empty statusFailureMsg, or one without that key.
NoStatus == [hasKey |-> FALSE, statusFailureMsg |-> "", jobs |-> "none"]
StatusDicts ==
  [hasKey : {TRUE}, statusFailureMsg : {"", "Cannot find status"}, jobs : {"jobs"}]
    \cup {[hasKey |-> FALSE, statusFailureMsg |-> "", jobs |-> "jobs"]}

LogIdle ==
  /\ consoleLevel = "INFO" /\ crabLogger = FALSE /\ handlers = <<>>
  /\ initLevel = "INFO"
  /\ op = [t \in Threads |-> "none"]
  /\ tpc = [t \in Threads |-> "idle"]
  /\ lvl = [t \in Threads |-> "INFO"]
  /\ hIdx = [t \in Threads |-> 0]
  /\ loglevel = [t \in Threads |-> "INFO"]
  /\ statusDict = [t \in Threads |-> NoStatus]
  /\ retval = [t \in Threads |-> NoStatus]
  /\ mutedExc = [t \in Threads |-> "none"]
  /\ events = [t \in Threads |-> <<>>]

\* The logging state a call can find: any console level, the aggregate logger
\* absent or present with handlers at levels of their own.
LogState ==
  /\ consoleLevel \in Levels
  /\ initLevel = consoleLevel
  /\ crabLogger \in BOOLEAN
  /\ handlers \in SeqUpTo(Levels, MaxHandlers)
  /\ ~crabLogger => handlers = <<>>
  /\ hIdx = [t \in Threads |-> 0]
  /\ loglevel = [t \in Threads |-> "INFO"]
  /\ statusDict = [t \in Threads |-> NoStatus]
  /\ retval = [t \in Threads |-> NoStatus]
  /\ mutedExc = [t \in Threads |-> "none"]
  /\ events = [t \in Threads |-> <<>>]

\* One thread calls getMutedStatusInfo.
MutedInit ==
  /\ LogState
  /\ op = [t \in Threads |-> IF t = 1 THEN "getMutedStatusInfo" ELSE "none"]
  /\ tpc = [t \in Threads |-> IF t = 1 THEN "read" ELSE "idle"]
  /\ lvl = [t \in Threads |-> "INFO"]

\* Two threads: one calls getMutedStatusInfo, the other getMutedStatusInfo or
\* setConsoleLogLevel.
RaceInit ==
  /\ LogState
  /\ \E other \in {"getMutedStatusInfo", "setConsoleLogLevel"} :
       /\ op = [t \in Threads |-> IF t = 1 THEN "getMutedStatusInfo" ELSE other]
       /\ tpc = [t \in Threads |->
                   IF t = 1 \/ other = "getMutedStatusInfo" THEN "read" ELSE "set_var"]
  /\ \E arg \in Levels : lvl = [t \in Threads |-> IF t = 1 THEN "INFO" ELSE arg]

\* One entry of a call's trace: what it did, with which value, and the console
\* level in force once it was done.
Event(what, value, console) == [what |-> what, value |-> value, console |-> console]

\* Line 240: loglevel = getConsoleLogLevel(); line 241 enters
\* setConsoleLogLevel(LOGLEVEL_MUTE).
MutedRead(t) ==
  /\ tpc[t] = "read"
  /\ loglevel' = [loglevel EXCEPT ![t] = consoleLevel]
  /\ lvl' = [lvl EXCEPT ![t] = LOGLEVEL_MUTE]
  /\ tpc' = [tpc EXCEPT ![t] = "mute_var"]
  /\ events' = [events EXCEPT ![t] =
                          Append(@, Event("getConsoleLogLevel", consoleLevel, consoleLevel))]
  /\ UNCHANGED <<consoleLevel, crabLogger, handlers, initLevel, op, hIdx, statusDict,
                 retval, mutedExc, lumiVars, curlVars, userVars>>

\* setConsoleLogLevelVar(lvl): the assignment of ClientUtilities.CONSOLE_LOGLEVEL.
setConsoleLogLevelVar(level) == consoleLevel' = level

InSetVar(t) == tpc[t] \in {"mute_var", "restore_var", "set_var"}
InSetHandlers(t) == tpc[t] \in {"mute_handlers", "restore_handlers", "set_handlers"}
HandlersOf(pc) ==
  CASE pc = "mute_var" -> "mute_handlers"
    [] pc = "restore_var" -> "restore_handlers"
    [] pc = "set_var" -> "set_handlers"
AfterSet(pc) ==
  CASE pc = "mute_handlers" -> "call"
    [] pc = "restore_handlers" -> "log"
    [] pc = "set_handlers" -> "returned"

\* Lines 228-229 of setConsoleLogLevel.
SetLevelVar(t) ==
  /\ InSetVar(t)
  /\ setConsoleLogLevelVar(lvl[t])
  /\ hIdx' = [hIdx EXCEPT ![t] = 0]
  /\ tpc' = [tpc EXCEPT ![t] = HandlersOf(tpc[t])]
  /\ events' = [events EXCEPT ![t] =
                          Append(@, Event("setConsoleLogLevelVar", lvl[t], lvl[t]))]
  /\ UNCHANGED <<crabLogger, handlers, initLevel, op, lvl, loglevel, statusDict,
                 retval, mutedExc, lumiVars, curlVars, userVars>>

\* Lines 230-232 of setConsoleLogLevel: one h.setLevel(lvl) of the loop.
SetHandlerLevel(t) ==
  /\ InSetHandlers(t)
  /\ crabLogger
  /\ hIdx[t] < Len(handlers)
  /\ handlers' = [handlers EXCEPT ![hIdx[t] + 1] = lvl[t]]
  /\ hIdx' = [hIdx EXCEPT ![t] = @ + 1]
  /\ events' = [events EXCEPT ![t] =
                          Append(@, Event("h.setLevel", lvl[t], consoleLevel))]
  /\ UNCHANGED <<consoleLevel, crabLogger, initLevel, op, tpc, lvl, loglevel,
                 statusDict, retval, mutedExc, lumiVars, curlVars, userVars>>

\* A restore that passes the mute level again.
RestoredLevelMute(t) == LOGLEVEL_MUTE

\* A restore to a default level instead of the saved one.
RestoredLevelDefault(t) == "INFO"

\* The level line 243 restores: the local loglevel.
RestoredLevel(t) == loglevel[t]

\* setConsoleLogLevel returns: no aggregate logger, or the loop is exhausted.
\* getMutedStatusInfo goes on to the status call (line 242) or to the check of
\* statusFailureMsg (line 245).
SetLevelDone(t) ==
  /\ InSetHandlers(t)
  /\ ~crabLogger \/ hIdx[t] = Len(handlers)
  /\ tpc' = [tpc EXCEPT ![t] = AfterSet(tpc[t])]
  /\ UNCHANGED <<consoleLevel, crabLogger, handlers, initLevel, op, lvl, hIdx,
                 loglevel, statusDict, retval, mutedExc, events, lumiVars, curlVars,
                 userVars>>

\* A status call wrapped in try/finally: the level is put back when it raises.
MutedCallRestoresOnRaise(t) ==
  /\ tpc[t] = "call"
  /\ \/ \E d \in StatusDicts :
          /\ statusDict' = [statusDict EXCEPT ![t] = d]
          /\ lvl' = [lvl EXCEPT ![t] = RestoredLevel(t)]
          /\ tpc' = [tpc EXCEPT ![t] = "restore_var"]
          /\ events' = [events EXCEPT ![t] =
                          Append(@, Event("status", d.statusFailureMsg, consoleLevel))]
          /\ UNCHANGED <<mutedExc, consoleLevel, handlers>>
     \/ /\ mutedExc' = [mutedExc EXCEPT ![t] = "StatusError"]
        /\ tpc' = [tpc EXCEPT ![t] = "raised"]
        /\ events' = [events EXCEPT ![t] =
                          Append(@, Event("status", "raised", consoleLevel))]
        /\ consoleLevel' = loglevel[t]
        /\ handlers' = [i \in 1..Len(handlers) |-> loglevel[t]]
        /\ UNCHANGED <<statusDict, lvl>>
  /\ UNCHANGED <<crabLogger, initLevel, op, hIdx, loglevel, retval, lumiVars, curlVars,
                 userVars>>

\* Line 242: statusDict = cmdobj.__call__(), which returns a dictionary or
\* raises; line 243 enters setConsoleLogLevel(loglevel).
MutedCall(t) ==
  /\ tpc[t] = "call"
  /\ \/ \E d \in StatusDicts :
          /\ statusDict' = [statusDict EXCEPT ![t] = d]
          /\ lvl' = [lvl EXCEPT ![t] = RestoredLevel(t)]
          /\ tpc' = [tpc EXCEPT ![t] = "restore_var"]
          /\ events' = [events EXCEPT ![t] =
                          Append(@, Event("status", d.statusFailureMsg, consoleLevel))]
          /\ UNCHANGED mutedExc
     \/ /\ mutedExc' = [mutedExc EXCEPT ![t] = "StatusError"]
        /\ tpc' = [tpc EXCEPT ![t] = "raised"]
        /\ events' = [events EXCEPT ![t] =
                          Append(@, Event("status", "raised", consoleLevel))]
        /\ UNCHANGED <<statusDict, lvl>>
  /\ UNCHANGED <<consoleLevel, crabLogger, handlers, initLevel, op, hIdx, loglevel,
                 retval, lumiVars, curlVars, userVars>>

\* Lines 245-250: log a non-empty statusFailureMsg at error level, return the
\* dictionary.
MutedReturn(t) ==
  /\ tpc[t] = "log"
  /\ IF ~statusDict[t].hasKey
     THEN /\ mutedExc' = [mutedExc EXCEPT ![t] = "KeyError"]
          /\ tpc' = [tpc EXCEPT ![t] = "raised"]
          /\ UNCHANGED <<retval, events>>
     ELSE /\ events' = [events EXCEPT ![t] =
                          IF statusDict[t].statusFailureMsg # ""
                          THEN Append(@, Event("logger.error",
                                               statusDict[t].statusFailureMsg,
                                               consoleLevel))
                          ELSE @]
          /\ retval' = [retval EXCEPT ![t] = statusDict[t]]
          /\ tpc' = [tpc EXCEPT ![t] = "returned"]
          /\ UNCHANGED mutedExc
  /\ UNCHANGED <<consoleLevel, crabLogger, handlers, initLevel, op, lvl, hIdx,
                 loglevel, statusDict, lumiVars, curlVars, userVars>>

LogNext ==
  \E t \in Threads :
    \/ MutedRead(t)
    \/ SetLevelVar(t)
    \/ SetHandlerLevel(t)
    \/ SetLevelDone(t)
    \/ MutedCall(t)
    \/ MutedReturn(t)

\* ----------------------------------------------- claims C7, C10 (SpecMuted)
\* n entries, each e.
Repeat(e, n) == [i \in 1..n |-> e]
NumHandlers == IF crabLogger THEN Len(handlers) ELSE 0

\* What setConsoleLogLevel(level) does, in order.
SetLevelEvents(level) ==
  <<Event("setConsoleLogLevelVar", level, level)>>
    \o Repeat(Event("h.setLevel", level, level), NumHandlers)

\* C7: a getMutedStatusInfo call that has returned did, in this order and
\* nothing else: read the console level L, set the level (and every handler)
\* to LOGLEVEL_MUTE, invoke the status command under that level, set the level
\* (and every handler) back to L, and then, with the level at L again, log a
\* non-empty statusFailureMsg at error level. The console level is L as it was
\* before the call and the value returned is the dictionary the status command
\* handed back.
C7_MuteCallRestoreLog ==
  tpc[1] = "returned" =>
    LET msg == statusDict[1].statusFailureMsg
    IN  /\ events[1] =
             <<Event("getConsoleLogLevel", initLevel, initLevel)>>
               \o SetLevelEvents(LOGLEVEL_MUTE)
               \o <<Event("status", msg, LOGLEVEL_MUTE)>>
               \o SetLevelEvents(initLevel)
               \o (IF msg # "" THEN <<Event("logger.error", msg, initLevel)>> ELSE <<>>)
        /\ consoleLevel = initLevel
        /\ retval[1] = statusDict[1]
        /\ retval[1] \in StatusDicts

\* A call that started at DEBUG with two handlers returned a dictionary with a
\* failure message.
C7_Witness ==
  /\ tpc[1] = "returned"
  /\ initLevel = "DEBUG"
  /\ Len(handlers) = 2
  /\ retval[1].statusFailureMsg = "Cannot find status"
  /\ consoleLevel = "DEBUG"

\* C10: when the status command raises, the call ends with that exception and
\* does nothing more: the console level and every handler of 'CRAB3.all' stay
\* at LOGLEVEL_MUTE, and nothing was set back or logged after the status call.
C10_RaiseLeavesMuted ==
  (tpc[1] = "raised" /\ mutedExc[1] = "StatusError") =>
    /\ consoleLevel = LOGLEVEL_MUTE
    /\ \A i \in 1..Len(handlers) : handlers[i] = LOGLEVEL_MUTE
    /\ events[1][Len(events[1])] = Event("status", "raised", LOGLEVEL_MUTE)
    /\ retval[1] = NoStatus
    /\ ~ENABLED LogNext

\* The status command raised in a call that started at INFO with two handlers
\* at levels of their own.
C10_Witness ==
  /\ tpc[1] = "raised"
  /\ mutedExc[1] = "StatusError"
  /\ initLevel = "INFO"
  /\ Len(handlers) = 2
  /\ consoleLevel = LOGLEVEL_MUTE

\* -------------------------------------------------- claim C9 (SpecRace)
AllReturned == \A t \in Threads : tpc[t] = "returned"
BothMuted == \A t \in Threads : op[t] = "getMutedStatusInfo"
\* What either order of the two calls, one after the other, leaves.
SequentialLevel == IF BothMuted THEN initLevel ELSE lvl[2]

\* C9: the calls take no lock. When both have returned, the console level is
\* what running them one after the other leaves, or else the stale level a
\* getMutedStatusInfo call had saved before the other call's write and put
\* back after it: LOGLEVEL_MUTE for two getMutedStatusInfo calls, the level
\* before the calls for a getMutedStatusInfo and a setConsoleLogLevel. The
\* stale outcome is reached (C9_Witness, C9_WitnessSet).
C9_RaceOutcomes ==
  AllReturned =>
    /\ consoleLevel \in {SequentialLevel} \cup
                        (IF BothMuted THEN {LOGLEVEL_MUTE} ELSE {initLevel})
    /\ consoleLevel # SequentialLevel =>
         \E t \in Threads : op[t] = "getMutedStatusInfo" /\ loglevel[t] = consoleLevel

\* Two getMutedStatusInfo calls started at a level other than LOGLEVEL_MUTE,
\* both returned, and the console is left muted.
C9_Witness ==
  /\ AllReturned
  /\ BothMuted
  /\ initLevel # LOGLEVEL_MUTE
  /\ consoleLevel = LOGLEVEL_MUTE

\* A setConsoleLogLevel(DEBUG) raced with a getMutedStatusInfo from INFO: both
\* returned and the level is INFO, not DEBUG.
C9_WitnessSet ==
  /\ AllReturned
  /\ op[2] = "setConsoleLogLevel"
  /\ lvl[2] = "DEBUG"
  /\ initLevel = "INFO"
  /\ consoleLevel = "INFO"

\* ========================================================= specifications
\* Each specification is one entry point of the module being called; the
\* state of the other entry points stays idle.
InitLumi == LumiInit /\ CurlIdle /\ UserIdle /\ LogIdle
InitCurl == CurlInit /\ LumiIdle /\ UserIdle /\ LogIdle
InitUser == UserInit /\ LumiIdle /\ CurlIdle /\ LogIdle
InitMuted == MutedInit /\ LumiIdle /\ CurlIdle /\ UserIdle
InitRace == RaceInit /\ LumiIdle /\ CurlIdle /\ UserIdle

\* One call of getLumiListInValidFiles.
SpecLumi == InitLumi /\ [][LumiNext]_vars

\* One call of curlGetFileFromURL.
SpecCurl == InitCurl /\ [][CurlNext]_vars

\* One call of getUsernameFromCRIC.
SpecUser == InitUser /\ [][UserNext]_vars

\* One call of getMutedStatusInfo, alone.
SpecMuted == InitMuted /\ [][LogNext]_vars

\* Two threads changing the console level with no lock between them.
SpecRace == InitRace /\ [][LogNext]_vars

====
